---- MODULE Spec2Model ----
(***************************************************************************)
(* Model of the 1-D finite-element assembly routines of numdiff_p2:        *)
(*   stiffness_matrix.py : elemental_stiffness_matrix, stiffness_matrix    *)
(*   quadrature.py       : gaussian_quad, quadrature_phi0, quadrature_phi1 *)
(*   load_vector.py      : elemental_load_vector, load_vector              *)
(*                                                                         *)
(* Real numbers are carried exactly in the field Q(sqrt 3): the triple     *)
(* <<p, q, d>> stands for (p + q*sqrt(3)) / d with d > 0 and               *)
(* gcd(p, q, d) = 1.  Rationals have q = 0; the two Gauss-Legendre nodes   *)
(* -1/sqrt(3) and 1/sqrt(3) are <<0,-1,3>> and <<0,1,3>>.  The normal form *)
(* is unique, so equality of numbers is equality of triples.               *)
(***************************************************************************)
EXTENDS Integers, Sequences, FiniteSets, TLC

VARIABLES
    prog,       \* which routine is being called: "stiffness" or "load"
    M,          \* argument M (number of grid points)
    pc,         \* position in the routine: "loop", "overwrite", "bc", "done"
    outcome,    \* "running", "returned" or the name of the exception raised
    alpha,      \* stiffness_matrix: diffusion coefficient
    b,          \* stiffness_matrix: advection coefficient
    c,          \* stiffness_matrix: reaction coefficient
    H,          \* stiffness_matrix: element widths, 0-based function
    A,          \* stiffness_matrix: the matrix A, rows and columns 0..M-1
    k,          \* stiffness_matrix: loop variable k
    f,          \* load_vector: source term, polynomial coefficients
    X,          \* load_vector: grid points, 0-based function
    g0,         \* load_vector: boundary value at the left end
    g1,         \* load_vector: boundary value at the right end
    F,          \* load_vector: the vector F, entries 0..M-1
    i,          \* load_vector: loop variable i
    Fe,         \* load_vector: value of the last elemental_load_vector call
    ret         \* load_vector: the returned vector, 0-based function

vars == <<prog, M, pc, outcome, alpha, b, c, H, A, k, f, X, g0, g1, F, i, Fe, ret>>

stiffVars == <<alpha, b, c, H, A, k>>
loadVars == <<f, X, g0, g1, F, i, Fe, ret>>

(***************************************************************************)
(* Bounds of the model                                                     *)
(***************************************************************************)
MaxM == 4            \* stiffness_matrix is called with M in 0..MaxM
MaxLoadM == 5        \* load_vector is called with M in 0..MaxLoadM

(***************************************************************************)
(* Exact arithmetic in Q(sqrt 3)                                           *)
(***************************************************************************)
Abs(n) == IF n < 0 THEN -n ELSE n

RECURSIVE Gcd(_, _)
Gcd(m, n) == IF n = 0 THEN m ELSE Gcd(n, m % n)

Norm(p, q, d) ==
    LET g == Gcd(Gcd(Abs(p), Abs(q)), Abs(d))
        s == IF d < 0 THEN -1 ELSE 1
    IN  <<(s * p) \div g, (s * q) \div g, (s * d) \div g>>

\* the carrier of the numbers, and the embedding of the integers
Reals == Int \X Int \X Int
Num(n) == <<n, 0, 1>>
Rat(n, d) == Norm(n, 0, d)
Zero == Num(0)
One == Num(1)

Add(x, y) == Norm(x[1] * y[3] + y[1] * x[3], x[2] * y[3] + y[2] * x[3], x[3] * y[3])
Neg(x) == <<-x[1], -x[2], x[3]>>
Sub(x, y) == Add(x, Neg(y))
Mul(x, y) == Norm(x[1] * y[1] + 3 * x[2] * y[2], x[1] * y[2] + x[2] * y[1], x[3] * y[3])
Inv(x) == Norm(x[3] * x[1], -(x[3] * x[2]), x[1] * x[1] - 3 * x[2] * x[2])
Div(x, y) == Mul(x, Inv(y))

(***************************************************************************)
(* Python indexing                                                         *)
(***************************************************************************)
\* a negative index counts from the end of an axis of length n
Idx(j, n) == IF j < 0 THEN j + n ELSE j
InBounds(j, n) == -n <= j /\ j < n

\* length of a 0-based array
Size(v) == Cardinality(DOMAIN v)

\* v[start:stop] of a 0-based array of length n, as a 0-based array
SliceBound(j, n) == IF j < 0 THEN (IF j + n < 0 THEN 0 ELSE j + n)
                    ELSE (IF j > n THEN n ELSE j)
Slice(v, start, stop) ==
    LET n == Size(v)
        lo == SliceBound(start, n)
        hi == SliceBound(stop, n)
        len == IF hi > lo THEN hi - lo ELSE 0
    IN  [j \in 0..(len - 1) |-> v[lo + j]]

\* np.zeros
ZerosVec(n) == [j \in 0..(n - 1) |-> Zero]
ZerosMat(n) == [r \in 0..(n - 1) |-> [s \in 0..(n - 1) |-> Zero]]

(***************************************************************************)
(* stiffness_matrix.py                                                     *)
(***************************************************************************)
\* a plausible slip: the off-diagonal entry of the first row takes c*h/3
elemental_stiffness_matrix_typo(al, bb, cc, h) ==
    LET ah == Div(al, h)
        b2 == Div(bb, Num(2))
        c3 == Div(Mul(cc, h), Num(3))
        c6 == Div(Mul(cc, h), Num(6))
    IN  << << Add(Add(ah, b2), c3),      Add(Add(Neg(ah), b2), c3) >>,
           << Add(Sub(Neg(ah), b2), c6), Add(Sub(ah, b2), c3) >> >>

\* the 2x2 local matrix, rows and columns numbered 1..2
elemental_stiffness_matrix(al, bb, cc, h) ==
    LET ah == Div(al, h)
        b2 == Div(bb, Num(2))
        c3 == Div(Mul(cc, h), Num(3))
        c6 == Div(Mul(cc, h), Num(6))
    IN  << << Add(Add(ah, b2), c3),      Add(Add(Neg(ah), b2), c6) >>,
           << Add(Sub(Neg(ah), b2), c6), Add(Sub(ah, b2), c3) >> >>

\* a plausible slip: the column offset of the block is forgotten
ScatterAddNoColumnOffset(mat, kk, Ak) ==
    [r \in DOMAIN mat |-> [s \in DOMAIN mat[r] |->
        IF r \in {kk, kk + 1} /\ s \in {0, 1}
        THEN Add(mat[r][s], Ak[r - kk + 1][s + 1])
        ELSE mat[r][s]]]

\* a plausible slip: the block is assigned instead of accumulated
ScatterAssign(mat, kk, Ak) ==
    [r \in DOMAIN mat |-> [s \in DOMAIN mat[r] |->
        IF r \in {kk, kk + 1} /\ s \in {kk, kk + 1}
        THEN Ak[r - kk + 1][s - kk + 1]
        ELSE mat[r][s]]]

\* A[k:k+2, k:k+2] += Ak
ScatterAdd(mat, kk, Ak) ==
    [r \in DOMAIN mat |-> [s \in DOMAIN mat[r] |->
        IF r \in {kk, kk + 1} /\ s \in {kk, kk + 1}
        THEN Add(mat[r][s], Ak[r - kk + 1][s - kk + 1])
        ELSE mat[r][s]]]

\* A[(rows, cols)] = v with index lists rows, cols of equal length
FancyInBounds(n, rows, cols) ==
    \A t \in DOMAIN rows : InBounds(rows[t], n) /\ InBounds(cols[t], n)
FancyAssign(mat, n, rows, cols, v) ==
    [r \in DOMAIN mat |-> [s \in DOMAIN mat[r] |->
        IF \E t \in DOMAIN rows : Idx(rows[t], n) = r /\ Idx(cols[t], n) = s
        THEN v ELSE mat[r][s]]]

\* a plausible slip: the columns next to the boundary are cleared, not the rows
BoundaryOverwriteColumns(mat, n) ==
    FancyAssign(FancyAssign(mat, n, <<0, -1>>, <<0, -1>>, One),
                n, <<1, -2>>, <<0, -1>>, Zero)

\* line 17: A[([0,-1],[0,-1])] = 1
DiagonalInBounds(n) == FancyInBounds(n, <<0, -1>>, <<0, -1>>)
SetBoundaryDiagonal(mat, n) == FancyAssign(mat, n, <<0, -1>>, <<0, -1>>, One)

\* line 18: A[([0,-1],[1,-2])] = 0
NeighbourInBounds(n) == FancyInBounds(n, <<0, -1>>, <<1, -2>>)

\* lines 17-18: A[([0,-1],[0,-1])] = 1 ; A[([0,-1],[1,-2])] = 0
BoundaryOverwrite(mat, n) ==
    FancyAssign(SetBoundaryDiagonal(mat, n), n, <<0, -1>>, <<1, -2>>, Zero)

BoundaryInBounds(n) == DiagonalInBounds(n) /\ NeighbourInBounds(n)

(***************************************************************************)
(* Inputs of stiffness_matrix                                              *)
(***************************************************************************)
AlphaVals == {Num(1), Num(2)}
BVals == {Num(0), Num(1)}
CVals == {Num(0), Num(1), Num(3)}
WidthVals == {Rat(1, 4), Num(1), Num(2)}

\* H has M-2, M-1 or M entries (one short, exact, one long)
HLens(m) == {n \in {m - 2, m - 1, m} : n >= 0}
Arrays(n, S) == [0..(n - 1) -> S]

NoLoad ==
    /\ f = <<0, 0, 0>>
    /\ X = ZerosVec(0)
    /\ g0 = Zero
    /\ g1 = Zero
    /\ F = ZerosVec(0)
    /\ i = 0
    /\ Fe = <<Zero, Zero>>
    /\ ret = ZerosVec(0)

InitStiffness ==
    /\ prog = "stiffness"
    /\ M \in 0..MaxM
    /\ alpha \in AlphaVals
    /\ b \in BVals
    /\ c \in CVals
    /\ \E n \in HLens(M) : H \in Arrays(n, WidthVals)
    /\ A = ZerosMat(M)
    /\ k = 0
    /\ pc = IF 0 < M - 1 THEN "loop" ELSE "overwrite"
    /\ outcome = "running"
    /\ NoLoad

\* one iteration of  for k in range(0, M-1)
Accumulate ==
    /\ prog = "stiffness" /\ pc = "loop"
    /\ k < M - 1
    /\ k < Size(H)
    /\ A' = ScatterAdd(A, k, elemental_stiffness_matrix(alpha, b, c, H[k]))
    /\ k' = k + 1
    /\ pc' = IF k + 1 < M - 1 THEN "loop" ELSE "overwrite"
    /\ UNCHANGED <<prog, M, outcome, alpha, b, c, H>>
    /\ UNCHANGED loadVars

\* H[k] with k past the end of H
AccumulateIndexError ==
    /\ prog = "stiffness" /\ pc = "loop"
    /\ k < M - 1
    /\ k >= Size(H)
    /\ pc' = "done"
    /\ outcome' = "IndexError"
    /\ UNCHANGED <<prog, M, alpha, b, c, H, A, k>>
    /\ UNCHANGED loadVars

\* lines 17-20: the boundary rows are overwritten and A is returned
OverwriteAndReturn ==
    /\ prog = "stiffness" /\ pc = "overwrite"
    /\ BoundaryInBounds(M)
    /\ A' = BoundaryOverwrite(A, M)
    /\ pc' = "done"
    /\ outcome' = "returned"
    /\ UNCHANGED <<prog, M, alpha, b, c, H, k>>
    /\ UNCHANGED loadVars

\* lines 17-18 with M < 2: an index is out of bounds.  With M = 0 line 17
\* raises and A is untouched; with M = 1 line 17 succeeds and sets
\* A[0,0] = 1, then line 18 raises.
OverwriteIndexError ==
    /\ prog = "stiffness" /\ pc = "overwrite"
    /\ ~BoundaryInBounds(M)
    /\ A' = IF DiagonalInBounds(M) THEN SetBoundaryDiagonal(A, M) ELSE A
    /\ pc' = "done"
    /\ outcome' = "IndexError"
    /\ UNCHANGED <<prog, M, alpha, b, c, H, k>>
    /\ UNCHANGED loadVars

NextStiffness ==
    \/ Accumulate
    \/ AccumulateIndexError
    \/ OverwriteAndReturn
    \/ OverwriteIndexError

SpecStiffness == InitStiffness /\ [][NextStiffness]_vars

(***************************************************************************)
(* quadrature.py                                                           *)
(***************************************************************************)
\* ksi, w = np.polynomial.legendre.leggauss(2): nodes -1/sqrt(3), 1/sqrt(3)
ksi == << <<0, -1, 3>>, <<0, 1, 3>> >>
w == << One, One >>
Half == Rat(1, 2)

\* the integrand g is a function on the numbers;
\* 0.5*(x1-x0)*np.sum(w*f(q)) with q = 0.5*(x1-x0)*ksi + 0.5*(x1+x0)
gaussian_quad(g, x0, x1) ==
    LET q(t) == Add(Mul(Mul(Half, Sub(x1, x0)), ksi[t]), Mul(Half, Add(x1, x0)))
    IN  Mul(Mul(Half, Sub(x1, x0)),
            Add(Mul(w[1], g[q(1)]), Mul(w[2], g[q(2)])))

\* the source term f(x) = ff[1] + ff[2]*x + ff[3]*x^2
SourceAt(ff, x) ==
    Add(Add(Num(ff[1]), Mul(Num(ff[2]), x)), Mul(Num(ff[3]), Mul(x, x)))

quadrature_phi0(ff, x0, x1) ==
    gaussian_quad([x \in Reals |-> Div(Mul(SourceAt(ff, x), Sub(x, x0)), Sub(x1, x0))], x0, x1)

quadrature_phi1(ff, x0, x1) ==
    gaussian_quad([x \in Reals |-> Div(Mul(SourceAt(ff, x), Sub(x1, x)), Sub(x1, x0))], x0, x1)

(***************************************************************************)
(* load_vector_non_smooth.py: the two halves of a hat function             *)
(***************************************************************************)
\* first half of the hat function, with peak at x1
hat_up(x, x0, x1) == Div(Sub(x, x0), Sub(x1, x0))
\* last half of the hat function, with peak at x0
hat_down(x, x0, x1) == Div(Sub(x1, x), Sub(x1, x0))

(***************************************************************************)
(* load_vector.py                                                          *)
(***************************************************************************)
\* the length-2 local vector, entries numbered 1..2
elemental_load_vector(ff, x0, x1) ==
    << quadrature_phi0(ff, x0, x1), quadrature_phi1(ff, x0, x1) >>

\* a plausible slip: the last element is left out of the loop
LoopStopShort(m) == m - 2

\* range(M-1) runs i over 0 .. LoopStop(M)-1
LoopStop(m) == m - 1

\* F[i:i+2] += Fl
VecScatterAdd(vec, ii, Fl) ==
    [j \in DOMAIN vec |->
        IF j \in {ii, ii + 1} THEN Add(vec[j], Fl[j - ii + 1]) ELSE vec[j]]

\* vec[j] += v with a possibly negative index j
AddAt(vec, j, v) ==
    [t \in DOMAIN vec |-> IF t = Idx(j, Size(vec)) THEN Add(vec[t], v) ELSE vec[t]]

\* lines 26-27: F[2] += g0/(X[1]-X[0]) ; F[-2] += g1/(X[-1]-X[-2])
BoundaryCorrections(vec, xs, m, gl, gr) ==
    LET n == Size(xs)
        v1 == AddAt(vec, 2, Div(gl, Sub(xs[1], xs[0])))
    IN  AddAt(v1, -2, Div(gr, Sub(xs[Idx(-1, n)], xs[Idx(-2, n)])))

\* a plausible slip: only the first entry is dropped, F[1:]
InteriorKeepLast(vec) == Slice(vec, 1, Size(vec))

\* line 29: F[1:-1]
Interior(vec) == Slice(vec, 1, -1)

(***************************************************************************)
(* Inputs of load_vector                                                   *)
(***************************************************************************)
SourceVals == {<<0, 0, 0>>, <<1, 0, 0>>, <<0, 1, 0>>, <<1, 0, 1>>}
G0Vals == {Num(0), Num(1)}
G1Vals == {Num(0), Num(2)}
GridWidthVals == {Rat(1, 2), Num(1)}

\* the grid that starts at 0 and has the element widths hw
RECURSIVE GridPoint(_, _)
GridPoint(hw, j) == IF j = 0 THEN Zero ELSE Add(GridPoint(hw, j - 1), hw[j - 1])
Grid(hw, m) == [j \in 0..(m - 1) |-> GridPoint(hw, j)]

NoStiffness ==
    /\ alpha = Zero
    /\ b = Zero
    /\ c = Zero
    /\ H = ZerosVec(0)
    /\ A = ZerosMat(0)
    /\ k = 0

InitLoad ==
    /\ prog = "load"
    /\ M \in 0..MaxLoadM
    /\ f \in SourceVals
    /\ g0 \in G0Vals
    /\ g1 \in G1Vals
    /\ \E hw \in Arrays(M - 1, GridWidthVals) : X = Grid(hw, M)
    /\ F = ZerosVec(M)
    /\ i = 0
    /\ Fe = <<Zero, Zero>>
    /\ ret = ZerosVec(0)
    /\ pc = IF 0 < LoopStop(M) THEN "loop" ELSE "bc"
    /\ outcome = "running"
    /\ NoStiffness

\* one iteration of  for i in range(M-1)
Integrate ==
    /\ prog = "load" /\ pc = "loop"
    /\ i < LoopStop(M)
    /\ Fe' = elemental_load_vector(f, X[i], X[i + 1])
    /\ F' = VecScatterAdd(F, i, Fe')
    /\ i' = i + 1
    /\ pc' = IF i + 1 < LoopStop(M) THEN "loop" ELSE "bc"
    /\ UNCHANGED <<prog, M, outcome, f, X, g0, g1, ret>>
    /\ UNCHANGED stiffVars

\* lines 26-29: the boundary corrections are added and F[1:-1] is returned
CorrectAndReturn ==
    /\ prog = "load" /\ pc = "bc"
    /\ InBounds(2, M)
    /\ F' = BoundaryCorrections(F, X, M, g0, g1)
    /\ ret' = Interior(F')
    /\ pc' = "done"
    /\ outcome' = "returned"
    /\ UNCHANGED <<prog, M, f, X, g0, g1, i, Fe>>
    /\ UNCHANGED stiffVars

\* line 26 with M < 3: F[2] is out of bounds
CorrectIndexError ==
    /\ prog = "load" /\ pc = "bc"
    /\ ~InBounds(2, M)
    /\ pc' = "done"
    /\ outcome' = "IndexError"
    /\ UNCHANGED <<prog, M, f, X, g0, g1, F, i, Fe, ret>>
    /\ UNCHANGED stiffVars

NextLoad ==
    \/ Integrate
    \/ CorrectAndReturn
    \/ CorrectIndexError

SpecLoad == InitLoad /\ [][NextLoad]_vars

(***************************************************************************)
(* Properties of stiffness_matrix (checked under SpecStiffness)            *)
(***************************************************************************)
Returned(name) == prog = name /\ pc = "done" /\ outcome = "returned"
Raised(name) == prog = name /\ pc = "done" /\ outcome # "returned"

OneHot(row, d, n) == \A j \in 0..(n - 1) : row[j] = IF j = d THEN One ELSE Zero
SymmetricOn(mat, S) == \A r \in S : \A s \in S : mat[r][s] = mat[s][r]
Tridiagonal(mat, n) ==
    \A r \in 0..(n - 1) : \A s \in 0..(n - 1) :
        (r - s > 1 \/ s - r > 1) => mat[r][s] = Zero

\* C1: in the matrix returned by stiffness_matrix (M >= 2) row 0 is the
\* one-hot row with A[0,0] = 1 and row M-1 is the one-hot row with
\* A[M-1,M-1] = 1, whatever the loop had accumulated in those rows.
C1_BoundaryRowsOneHot ==
    Returned("stiffness") =>
        /\ M >= 2
        /\ OneHot(A[0], 0, M)
        /\ OneHot(A[M - 1], M - 1, M)

\* a returned matrix with interior rows, whose row next to the boundary
\* still couples to the boundary node
C1_Witness ==
    /\ Returned("stiffness")
    /\ M >= 3
    /\ A[1][0] # Zero
    /\ A[M - 2][M - 1] # Zero

\* C2 as stated: the returned matrix is symmetric when b = 0, alpha > 0, c >= 0.
C2_ReturnedSymmetric ==
    (Returned("stiffness") /\ b = Zero) => SymmetricOn(A, 0..(M - 1))

\* the off-diagonal entry -alpha/h + c*h/6 that an element of width h couples
\* its two nodes with when b = 0
C2_Coupling(h) == Add(Neg(Div(alpha, h)), Div(Mul(c, h), Num(6)))

\* C2 amended: when b = 0 the matrix accumulated by the loop is symmetric at
\* every point before the boundary overwrite.  In the returned matrix the
\* interior block (rows and columns 1..M-2) is symmetric; for M = 2 the
\* returned matrix is the identity; for M >= 3 the overwrite has cleared
\* A[0,1] and A[M-1,M-2] and left A[1,0] = -alpha/H[0] + c*H[0]/6 and
\* A[M-2,M-1] = -alpha/H[M-2] + c*H[M-2]/6 as accumulated, so the returned
\* matrix is symmetric exactly when both of these values are 0.
C2_SymmetricBeforeOverwrite ==
    (prog = "stiffness" /\ b = Zero) =>
        /\ outcome = "running" => SymmetricOn(A, 0..(M - 1))
        /\ outcome = "returned" =>
              /\ SymmetricOn(A, 1..(M - 2))
              /\ M = 2 => (A[0][1] = Zero /\ A[1][0] = Zero)
              /\ M >= 3 =>
                    /\ A[0][1] = Zero
                    /\ A[M - 1][M - 2] = Zero
                    /\ A[1][0] = C2_Coupling(H[0])
                    /\ A[M - 2][M - 1] = C2_Coupling(H[M - 2])
              /\ SymmetricOn(A, 0..(M - 1)) <=>
                    \/ M = 2
                    \/ /\ C2_Coupling(H[0]) = Zero
                       /\ C2_Coupling(H[M - 2]) = Zero

\* a returned matrix with b = 0, a reaction term and two coupled interior
\* nodes, whose first row is cleared while its first column is not
C2_Witness ==
    /\ Returned("stiffness")
    /\ b = Zero
    /\ c # Zero
    /\ M >= 4
    /\ A[1][2] # Zero
    /\ A[1][2] = A[2][1]
    /\ A[0][1] = Zero
    /\ A[1][0] # Zero

\* C5 as stated: a call with len(H) # M-1 ends in InvalidMeshError.
C5_ShapeOfHValidated ==
    (prog = "stiffness" /\ pc = "done" /\ Size(H) # M - 1) =>
        outcome = "InvalidMeshError"

\* C7: after every iteration of the accumulation loop and in the returned
\* matrix, A[i,j] = 0 whenever |i-j| > 1.
C7_Tridiagonal ==
    prog = "stiffness" => Tridiagonal(A, M)

\* a returned 4x4 (or larger) matrix, which has entries off the three
\* diagonals, with the loop's contributions on the band
C7_Witness ==
    /\ Returned("stiffness")
    /\ M >= 4
    /\ A[1][2] # Zero
    /\ A[2][1] # Zero
    /\ A[M - 2][M - 1] # Zero

\* the three entries of interior row kk as the sum of the two adjacent
\* local matrices
RowLeft(kk) ==
    Add(Sub(Neg(Div(alpha, H[kk - 1])), Div(b, Num(2))),
        Div(Mul(c, H[kk - 1]), Num(6)))
RowDiag(kk) ==
    Add(Add(Sub(Div(alpha, H[kk - 1]), Div(b, Num(2))), Div(Mul(c, H[kk - 1]), Num(3))),
        Add(Add(Div(alpha, H[kk]), Div(b, Num(2))), Div(Mul(c, H[kk]), Num(3))))
RowRight(kk) ==
    Add(Add(Neg(Div(alpha, H[kk])), Div(b, Num(2))), Div(Mul(c, H[kk]), Num(6)))

\* C9: every interior row k (1 <= k <= M-2) of the returned matrix is
\* A[k,k-1] = -alpha/H[k-1] - b/2 + c*H[k-1]/6,
\* A[k,k] = (alpha/H[k-1] - b/2 + c*H[k-1]/3) + (alpha/H[k] + b/2 + c*H[k]/3),
\* A[k,k+1] = -alpha/H[k] + b/2 + c*H[k]/6: the boundary overwrite leaves it alone.
C9_InteriorRows ==
    Returned("stiffness") =>
        \A kk \in 1..(M - 2) :
            /\ A[kk][kk - 1] = RowLeft(kk)
            /\ A[kk][kk] = RowDiag(kk)
            /\ A[kk][kk + 1] = RowRight(kk)

\* the example of the claim: alpha = 1, b = c = 0 and uniform h = 1/4 give
\* the interior row -4, 8, -4
C9_Witness ==
    /\ Returned("stiffness")
    /\ M >= 3
    /\ alpha = One /\ b = Zero /\ c = Zero
    /\ H[0] = Rat(1, 4) /\ H[1] = Rat(1, 4)
    /\ A[1][0] = Num(-4) /\ A[1][1] = Num(8) /\ A[1][2] = Num(-4)

(***************************************************************************)
(* Properties of load_vector (checked under SpecLoad)                      *)
(***************************************************************************)
\* the local load vector of element e
Local(e) == elemental_load_vector(f, X[e], X[e + 1])

\* entry j of the global vector when the elements of the set E are integrated
SumOver(E, j) ==
    Add(IF (j - 1) \in E THEN Local(j - 1)[2] ELSE Zero,
        IF j \in E THEN Local(j)[1] ELSE Zero)

\* C3 as stated: every call of load_vector with M < 4 ends in
\* InvalidMeshError and never returns a vector.
C3_SmallMeshRejected ==
    (prog = "load" /\ pc = "done" /\ M < 4) => outcome = "InvalidMeshError"

\* C4 as stated: for M >= 4 the step that applies the boundary corrections
\* adds g0/(X[1]-X[0]) to the entry of node 1 and g1/(X[M-1]-X[M-2]) to the
\* entry of node M-2, changes no other entry, and returns entries 1..M-2.
C4_Corrected(vec) ==
    [j \in 0..(M - 1) |->
        Add(Add(vec[j], IF j = 1 THEN Div(g0, Sub(X[1], X[0])) ELSE Zero),
            IF j = M - 2 THEN Div(g1, Sub(X[M - 1], X[M - 2])) ELSE Zero)]
C4_CorrectionsAtFirstAndLastInterior ==
    [][(prog = "load" /\ pc = "bc" /\ M >= 4 /\ outcome' = "returned") =>
          /\ F' = C4_Corrected(F)
          /\ ret' = [j \in 0..(M - 3) |-> F'[j + 1]]]_vars

\* C6: for M >= 4 the returned vector has length M-2 and its entry j is the
\* global entry F[j+1].
C6_ReturnsInteriorEntries ==
    (Returned("load") /\ M >= 4) =>
        /\ DOMAIN ret = 0..(M - 3)
        /\ \A j \in 0..(M - 3) : ret[j] = F[j + 1]

\* a returned vector for M >= 4 where the two dropped boundary entries and
\* the kept entries are all non-zero
C6_Witness ==
    /\ Returned("load")
    /\ M >= 4
    /\ F[0] # Zero /\ F[M - 1] # Zero
    /\ \A j \in DOMAIN ret : ret[j] # Zero

\* C8 as stated: only the elements 1..M-3 are integrated, so with
\* g0 = g1 = 0 the returned vector is the sum over those elements alone.
C8_InteriorElementsOnly ==
    (Returned("load") /\ M >= 4 /\ g0 = Zero /\ g1 = Zero) =>
        ret = [j \in 0..(M - 3) |-> SumOver(1..(M - 3), j + 1)]

\* C8 amended: the source term is integrated over every element 0..M-2:
\* when the loop has finished, each entry F[j] is the sum of the local
\* contributions of elements j-1 and j, the boundary-adjacent elements 0 and
\* M-2 included, and with g0 = g1 = 0 the first and last returned entries
\* contain the contribution of element 0 and of element M-2.
C8_AllElementsIntegrated ==
    /\ (prog = "load" /\ pc = "bc") =>
          \A j \in 0..(M - 1) : F[j] = SumOver(0..(M - 2), j)
    /\ (Returned("load") /\ M >= 4 /\ g0 = Zero /\ g1 = Zero) =>
          /\ ret[0] = Add(Local(0)[2], Local(1)[1])
          /\ ret[M - 3] = Add(Local(M - 3)[2], Local(M - 2)[1])

\* the loop has finished on a mesh with M >= 4 and both boundary-adjacent
\* elements have contributed
C8_Witness ==
    /\ prog = "load" /\ pc = "bc"
    /\ M >= 4
    /\ Local(0)[2] # Zero /\ Local(M - 2)[1] # Zero
    /\ F[0] # Zero /\ F[M - 1] # Zero

\* C10 as stated: the value added to F[i] is the integral of f times the
\* hat function that is 1 at X[i] and 0 at X[i+1], and the value added to
\* F[i+1] is the integral of f times the one that is 1 at X[i+1] and 0 at
\* X[i].  Fe holds the values added by the last iteration (element i-1).
C10_OwnNodeHat ==
    (prog = "load" /\ i > 0) =>
        LET x0 == X[i - 1]
            x1 == X[i]
        IN  /\ Fe[1] = gaussian_quad([x \in Reals |-> Mul(SourceAt(f, x), hat_down(x, x0, x1))], x0, x1)
            /\ Fe[2] = gaussian_quad([x \in Reals |-> Mul(SourceAt(f, x), hat_up(x, x0, x1))], x0, x1)

====
